---- MODULE Spec2Model ----
(***************************************************************************)
(* Model of sound/outputs/openal_out.cpp: the OpenAL playback backend.     *)
(*                                                                         *)
(* The program state is the set of OpenAL_Sound objects (bufferID, refCnt, *)
(* inst), the heap cells holding the shared counters, the OpenAL_Factory   *)
(* objects (didSetup, Device, Context) and the state of the audio device   *)
(* the code drives: buffers, sources, the pending AL error, the ALC        *)
(* devices and contexts.  Every al/alc call may fail; a failed call has no *)
(* effect and records its error if none is pending (alGetError returns and *)
(* clears the pending error).                                              *)
(***************************************************************************)
EXTENDS Integers, Sequences, FiniteSets, TLC

\* ---- bounds ----
MaxInst == 3      \* OpenAL_Sound constructions attempted (original or clone)
MaxBuf == 2       \* buffer names the device can hand out
MaxCtl == 1       \* control/query calls made in one run
MaxFac == 3       \* OpenAL_Factory constructions attempted
CtlInst == 2      \* constructions attempted in the controls' specification
MaxCh == 7        \* channel counts a sample source may report
MaxRate == 2      \* sample rates a sample source may report

Insts == 1..MaxInst
SrcIds == 1..MaxInst
BufIds == 1..MaxBuf
Facs == 1..MaxFac

\* ---- state ----
VARIABLES
  snd,       \* OpenAL_Sound objects: st, bufferID, refBase/refOff (refCnt), inst
  cell,      \* heap ints allocated by "new int", indexed by the buffer they count
  src,       \* device: playback sources
  buf,       \* device: buffers
  alErr,     \* device: pending AL error (the call that raised it), or NoErr
  delCalls,  \* number of alDeleteBuffers calls issued per buffer name
  lastTr,    \* per object: the most recent transport call the device carried out
  nCtl,      \* number of control/query calls made so far
  fac,       \* OpenAL_Factory objects: st, didSetup, Device, Context
  dev,       \* ALC: devices
  ctx,       \* ALC: contexts
  curCtx,    \* ALC: the current context (0 = none)
  last,      \* the operation that ran last: op, who, device calls, threw, ret, err
  neg        \* the last getALFormat call on its own: its inputs, fmt, rate, threw

vars == <<snd, cell, src, buf, alErr, delCalls, lastTr, nCtl, fac, dev, ctx, curCtx, last, neg>>
sndVars == <<snd, cell, src, buf, alErr, delCalls, lastTr, nCtl>>
facVars == <<fac, dev, ctx, curCtx>>
negVars == <<neg>>

\* ---- the device's error state and checkALError ----
NoErr == [site |-> "none", who |-> 0]

\* an al call at `site`, issued for object `who`, fails: the first error sticks
Raise(e, site, who) == IF e = NoErr THEN [site |-> site, who |-> who] ELSE e

\* the call succeeded or failed
After(ok, e, site, who) == IF ok THEN e ELSE Raise(e, site, who)

\* checkALError(where): throws iff alGetError() returns an error
checkALError(e) == e # NoErr

\* ---- sample sources handed to the constructor ----
\* getInfo(rate, channels, bits), hasPtr, and the bytes behind getPtr()/size()
\* or behind the BufferStream built over the source
Inputs ==
  { [rate |-> 1, ch |-> 1, bits |-> 8, hasPtr |-> TRUE, bytes |-> <<1, 2>>],
    [rate |-> 2, ch |-> 2, bits |-> 16, hasPtr |-> FALSE, bytes |-> <<3>>],
    [rate |-> 1, ch |-> 3, bits |-> 8, hasPtr |-> TRUE, bytes |-> <<1>>] }

\* alGetEnumValue(name): the device's value for the name, 0 when it has none.  A
\* device that advertises AL_EXT_MCFORMATS has the multichannel names; one that
\* does not may or may not have them (known).
alGetEnumValue(name, ext, known) == IF ext \/ known THEN name ELSE "0"

\* getALFormat, with the mono and stereo tags of the 16-bit branch exchanged
getALFormatSwapped(ch, bits, ext, known) ==
  LET f0 == "0"
      f8a == IF ch = 1 THEN "AL_FORMAT_MONO8" ELSE f0
      f8b == IF ch = 2 THEN "AL_FORMAT_STEREO8" ELSE f8a
      f8c == IF ext /\ ch = 4 THEN alGetEnumValue("AL_FORMAT_QUAD8", ext, known) ELSE f8b
      f8d == IF ext /\ ch = 6 THEN alGetEnumValue("AL_FORMAT_51CHN8", ext, known) ELSE f8c
      f8 == IF bits = 8 THEN f8d ELSE f0
      f16a == IF ch = 1 THEN "AL_FORMAT_STEREO16" ELSE f8
      f16b == IF ch = 2 THEN "AL_FORMAT_MONO16" ELSE f16a
      f16c == IF ch = 4 THEN alGetEnumValue("AL_FORMAT_QUAD16", ext, known) ELSE f16b
      f16d == IF ext /\ ch = 4 THEN alGetEnumValue("AL_FORMAT_QUAD16", ext, known) ELSE f16c
      f16e == IF ext /\ ch = 6 THEN alGetEnumValue("AL_FORMAT_51CHN16", ext, known) ELSE f16d
  IN IF bits = 16 THEN f16e ELSE f8

\* getALFormat, with the extension's 6-channel rows missing
getALFormatNo51(ch, bits, ext, known) ==
  LET f0 == "0"
      f8a == IF ch = 1 THEN "AL_FORMAT_MONO8" ELSE f0
      f8b == IF ch = 2 THEN "AL_FORMAT_STEREO8" ELSE f8a
      f8c == IF ext /\ ch = 4 THEN alGetEnumValue("AL_FORMAT_QUAD8", ext, known) ELSE f8b
      f8 == IF bits = 8 THEN f8c ELSE f0
      f16a == IF ch = 1 THEN "AL_FORMAT_MONO16" ELSE f8
      f16b == IF ch = 2 THEN "AL_FORMAT_STEREO16" ELSE f16a
      f16c == IF ch = 4 THEN alGetEnumValue("AL_FORMAT_QUAD16", ext, known) ELSE f16b
      f16d == IF ext /\ ch = 4 THEN alGetEnumValue("AL_FORMAT_QUAD16", ext, known) ELSE f16c
  IN IF bits = 16 THEN f16d ELSE f8

\* getALFormat: the format tag, "0" when none was resolved.  Each line of the
\* source is one step; a later assignment overwrites an earlier one.
getALFormat(ch, bits, ext, known) ==
  LET f0 == "0"
      f8a == IF ch = 1 THEN "AL_FORMAT_MONO8" ELSE f0
      f8b == IF ch = 2 THEN "AL_FORMAT_STEREO8" ELSE f8a
      f8c == IF ext /\ ch = 4 THEN alGetEnumValue("AL_FORMAT_QUAD8", ext, known) ELSE f8b
      f8d == IF ext /\ ch = 6 THEN alGetEnumValue("AL_FORMAT_51CHN8", ext, known) ELSE f8c
      f8 == IF bits = 8 THEN f8d ELSE f0
      f16a == IF ch = 1 THEN "AL_FORMAT_MONO16" ELSE f8
      f16b == IF ch = 2 THEN "AL_FORMAT_STEREO16" ELSE f16a
      f16c == IF ch = 4 THEN alGetEnumValue("AL_FORMAT_QUAD16", ext, known) ELSE f16b
      f16d == IF ext /\ ch = 4 THEN alGetEnumValue("AL_FORMAT_QUAD16", ext, known) ELSE f16c
      f16e == IF ext /\ ch = 6 THEN alGetEnumValue("AL_FORMAT_51CHN16", ext, known) ELSE f16d
  IN IF bits = 16 THEN f16e ELSE f8

\* the device calls getALFormat makes
getALFormatCalls(ch, bits, ext) ==
  LET q(name) == IF ext /\ ch \in {4, 6} THEN <<"alIsExtensionPresent", name>>
                 ELSE <<"alIsExtensionPresent">>
  IN IF bits = 8 THEN q("alGetEnumValue")
     ELSE IF bits = 16
          THEN (IF ch = 4 THEN <<"alGetEnumValue">> ELSE <<>>) \o q("alGetEnumValue")
          ELSE <<>>

\* ---- records ----
NoSound == [st |-> "unborn", bufferID |-> 0, refBase |-> 0, refOff |-> 0, inst |-> 0]
\* gain and pitch in tenths (1.0 is 10)
FreeSrc == [st |-> "free", buf |-> 0, state |-> "stopped", gain |-> 10,
            pos |-> <<0, 0, 0>>, pitch |-> 10, loop |-> FALSE, refd |-> 1, maxd |-> 9]
FreeBuf == [st |-> "free", fmt |-> "0", rate |-> 0, data |-> <<>>]
NoCell == [st |-> "none", val |-> 0]
NoFac == [st |-> "unborn", didSetup |-> FALSE, Device |-> 0, Context |-> 0]
NoNeg == [op |-> "none", rate |-> 0, ch |-> 0, bits |-> 0, ext |-> FALSE, known |-> FALSE,
          fmt |-> "0", outRate |-> 0, threw |-> FALSE]
NoOp == [op |-> "none", who |-> 0, calls |-> <<>>, threw |-> FALSE, ret |-> FALSE,
         err |-> NoErr]

Op(op, who, calls, threw, ret, err) ==
  [op |-> op, who |-> who, calls |-> calls, threw |-> threw, ret |-> ret, err |-> err]

Live(i) == snd[i].st = "live"
Unborn == {i \in Insts : snd[i].st = "unborn"}
FreeBufs == {b \in BufIds : buf[b].st = "free"}
FreeSrcs == {s \in SrcIds : src[s].st = "free"}
Min(S) == CHOOSE x \in S : \A y \in S : x <= y

Init ==
  /\ snd = [i \in Insts |-> NoSound]
  /\ cell = [b \in BufIds |-> NoCell]
  /\ src = [s \in SrcIds |-> FreeSrc]
  /\ buf = [b \in BufIds |-> FreeBuf]
  /\ alErr = NoErr
  /\ delCalls = [b \in BufIds |-> 0]
  /\ lastTr = [i \in Insts |-> "none"]
  /\ nCtl = 0
  /\ fac = [f \in Facs |-> NoFac]
  /\ dev = [f \in Facs |-> "none"]
  /\ ctx = [f \in Facs |-> "none"]
  /\ curCtx = 0
  /\ last = NoOp
  /\ neg = NoNeg


\* ---- OpenAL_Sound: construction from a sample source (lines 188-225) ----
\* The bytes alBufferData receives: from the source's getPtr()/size() when it has
\* pointer access, else from the BufferStream that drains the source.
\* BufferStream reads the source to its end, appending what it reads to its own
\* memory buffer
RECURSIVE Drain(_, _)
Drain(rest, acc) ==
  IF rest = <<>> THEN acc ELSE Drain(Tail(rest), Append(acc, Head(rest)))

BufferStream(input) == Drain(input.bytes, <<>>)

\* the upload without the else branch of line 205: a source without pointer
\* access has nothing behind getPtr()
UploadBytesPtrOnly(input) == IF input.hasPtr THEN input.bytes ELSE <<>>

UploadBytes(input) == IF input.hasPtr THEN input.bytes ELSE BufferStream(input)

\* FailUnsupported, were the format looked at only after alGenBuffers
FailUnsupportedLate(i, calls) ==
  /\ snd' = [snd EXCEPT ![i].st = "failed"]
  /\ buf' = IF FreeBufs # {} THEN [buf EXCEPT ![Min(FreeBufs)].st = "alloc"] ELSE buf
  /\ src' = src /\ cell' = cell
  /\ last' = Op("construct", i, calls \o <<"alGenBuffers", "gate">>, TRUE, FALSE,
                [site |-> "Unsupported input format", who |-> i])

\* getALFormat resolved no format: fail("Unsupported input format") leaves the
\* constructor at line 192, before its first device allocation
FailUnsupported(i, calls) ==
  /\ snd' = [snd EXCEPT ![i].st = "failed"]
  /\ buf' = buf /\ src' = src /\ cell' = cell
  /\ last' = Op("construct", i, calls, TRUE, FALSE,
                [site |-> "Unsupported input format", who |-> i])

\* failAt = k: the k-th fallible device call of the constructor fails (0: none);
\* 1 alGenBuffers, 2 alBufferData, 3 alGenSources, 4 alSourcei(AL_BUFFER).
\* ext: what alIsExtensionPresent("AL_EXT_MCFORMATS") answers; the device has the
\* multichannel names when it does (no input here has 4 or 6 channels).
Construct(i, input, ext, failAt) ==
  /\ i \in Unborn /\ i = Min(Unborn)
  /\ LET fmt == getALFormat(input.ch, input.bits, ext, ext)
         c0 == getALFormatCalls(input.ch, input.bits, ext)
         canBuf == FreeBufs # {}
         canSrc == FreeSrcs # {}
         b == IF canBuf THEN Min(FreeBufs) ELSE 0
         s == IF canSrc THEN Min(FreeSrcs) ELSE 0
         ok1 == failAt # 1 /\ canBuf
         ok2 == failAt # 2
         ok3 == failAt # 3 /\ canSrc
         ok4 == failAt # 4
         e1 == After(ok1, alErr, "alGenBuffers", i)
         e2 == After(ok2, NoErr, "alBufferData", i)
         e3 == After(ok3, NoErr, "alGenSources", i)
         e4 == After(ok4, NoErr, "alSourcei", i)
         buf1 == IF ok1 THEN [buf EXCEPT ![b].st = "alloc"] ELSE buf
         buf2 == IF ok2
                 THEN [buf1 EXCEPT ![b] = [st |-> "alloc", fmt |-> fmt, rate |-> input.rate,
                                           data |-> UploadBytes(input)]]
                 ELSE buf1
         src3 == IF ok3 THEN [src EXCEPT ![s].st = "alloc"] ELSE src
         src4 == IF ok4 THEN [src3 EXCEPT ![s].buf = b] ELSE src3
         k1 == c0 \o <<"alGenBuffers", "gate">>
         k2 == k1 \o <<IF input.hasPtr THEN "getPtr" ELSE "BufferStream">>
                  \o <<"alBufferData", "gate">>
         k3 == k2 \o <<"alGenSources", "gate">>
         k4 == k3 \o <<"alSourcei", "gate">>
         Failed(calls, e, bufN, srcN) ==
           /\ snd' = [snd EXCEPT ![i].st = "failed"]
           /\ buf' = bufN /\ src' = srcN /\ cell' = cell
           /\ last' = Op("construct", i, calls, TRUE, FALSE, e)
     IN /\ IF fmt = "0" THEN FailUnsupported(i, c0)
           ELSE IF checkALError(e1) THEN Failed(k1, e1, buf1, src)
           ELSE IF checkALError(e2) THEN Failed(k2, e2, buf2, src)
           ELSE IF checkALError(e3) THEN Failed(k3, e3, buf2, src3)
           ELSE IF checkALError(e4) THEN Failed(k4, e4, buf2, src4)
           ELSE /\ snd' = [snd EXCEPT ![i] = [st |-> "live", bufferID |-> b, refBase |-> b,
                                              refOff |-> 0, inst |-> s]]
                /\ cell' = [cell EXCEPT ![b] = [st |-> "live", val |-> 1]]
                /\ buf' = buf2 /\ src' = src4
                /\ last' = Op("construct", i, k4, FALSE, FALSE, NoErr)
        /\ alErr' = IF fmt = "0" THEN alErr ELSE NoErr
  /\ UNCHANGED <<delCalls, lastTr, nCtl>>
  /\ UNCHANGED <<facVars, negVars>>

\* ---- OpenAL_Sound: clone() and the clone constructor (lines 167-185) ----
\* "*refCnt++" parses as *(refCnt++): the member pointer moves one int forward and
\* the int it pointed at is read and dropped; no counter is written.
CloneRefOff(off) == off + 1

\* failAt: 0 none, 1 alGenSources, 2 alSourcei(AL_BUFFER)
Clone(i, j, failAt) ==
  /\ Live(i)
  /\ j \in Unborn /\ j = Min(Unborn)
  /\ LET b == snd[i].bufferID
         canSrc == FreeSrcs # {}
         s == IF canSrc THEN Min(FreeSrcs) ELSE 0
         ok1 == failAt # 1 /\ canSrc
         ok2 == failAt # 2 /\ buf[b].st = "alloc"
         e1 == After(ok1, alErr, "alGenSources", j)
         e2 == After(ok2, NoErr, "alSourcei", j)
         src1 == IF ok1 THEN [src EXCEPT ![s].st = "alloc"] ELSE src
         src2 == IF ok2 THEN [src1 EXCEPT ![s].buf = b] ELSE src1
         k1 == <<"alGenSources", "gate">>
         k2 == k1 \o <<"alSourcei", "gate">>
     IN IF checkALError(e1)
        THEN /\ snd' = [snd EXCEPT ![j].st = "failed"]
             /\ src' = src1
             /\ last' = Op("clone", j, k1, TRUE, FALSE, e1)
        ELSE IF checkALError(e2)
        THEN /\ snd' = [snd EXCEPT ![j].st = "failed"]
             /\ src' = src2
             /\ last' = Op("clone", j, k2, TRUE, FALSE, e2)
        ELSE /\ snd' = [snd EXCEPT ![j] = [st |-> "live", bufferID |-> b,
                                           refBase |-> snd[i].refBase,
                                           refOff |-> CloneRefOff(snd[i].refOff),
                                           inst |-> s]]
             /\ src' = src2
             /\ last' = Op("clone", j, k2, FALSE, FALSE, NoErr)
  /\ alErr' = NoErr
  /\ UNCHANGED <<cell, buf, delCalls, lastTr, nCtl>>
  /\ UNCHANGED <<facVars, negVars>>

\* ---- OpenAL_Sound: destruction (lines 227-244) ----
\* refCnt points at the counter only when it was never moved and the cell is live
InBounds(i) == snd[i].refOff = 0 /\ cell[snd[i].refBase].st = "live"

\* okStop, okDelS, okDelB: whether alSourceStop, alDeleteSources, alDeleteBuffers
\* succeed.  zero: what "(-- *refCnt) == 0" yields when refCnt points outside the
\* counter (the int read there is indeterminate).
Destroy(i, okStop, okDelS, okDelB, zero) ==
  /\ Live(i)
  /\ LET s == snd[i].inst
         b == snd[i].bufferID
         c == snd[i].refBase
         e1 == After(okStop, alErr, "alSourceStop", i)
         e2 == After(okDelS, e1, "alDeleteSources", i)
         src1 == IF okStop THEN [src EXCEPT ![s].state = "stopped"] ELSE src
         src2 == IF okDelS THEN [src1 EXCEPT ![s] = [FreeSrc EXCEPT !.st = "deleted"]]
                 ELSE src1
         cell1 == IF InBounds(i) THEN [cell EXCEPT ![c].val = @ - 1] ELSE cell
         isZero == IF InBounds(i) THEN cell1[c].val = 0 ELSE zero
         \* the device refuses to delete a buffer a source is still bound to
         bound == \E t \in SrcIds : src2[t].st = "alloc" /\ src2[t].buf = b
         okB == okDelB /\ ~bound /\ buf[b].st = "alloc"
         e3 == After(okB, e2, "alDeleteBuffers", i)
         k2 == <<"alSourceStop", "alDeleteSources">>
         k3 == k2 \o <<"alDeleteBuffers", "gate">>
     IN /\ snd' = [snd EXCEPT ![i].st = "dead"]
        /\ src' = src2
        /\ IF ~isZero
           THEN /\ cell' = cell1 /\ buf' = buf /\ delCalls' = delCalls
                /\ alErr' = e2
                /\ last' = Op("destroy", i, k2, FALSE, FALSE, NoErr)
           ELSE /\ delCalls' = [delCalls EXCEPT ![b] = @ + 1]
                /\ buf' = IF okB THEN [buf EXCEPT ![b] = [FreeBuf EXCEPT !.st = "deleted"]]
                          ELSE buf
                /\ alErr' = NoErr
                /\ IF checkALError(e3)
                   THEN /\ cell' = cell1
                        /\ last' = Op("destroy", i, k3, TRUE, FALSE, e3)
                   ELSE \* delete refCnt
                        /\ cell' = IF InBounds(i) THEN [cell1 EXCEPT ![c].st = "freed"]
                                   ELSE cell1
                        /\ last' = Op("destroy", i, k3, FALSE, FALSE, NoErr)
  /\ lastTr' = [lastTr EXCEPT ![i] = "none"]
  /\ UNCHANGED nCtl
  /\ UNCHANGED <<facVars, negVars>>

\* ---- OpenAL_Sound: transport (lines 109-133) ----
\* Gated, were the per-voice state kept with the buffer: the call reaches every
\* source bound to the buffer of the object's source
GatedPerBuffer(i, op, site, ok, srcNew, tr) ==
  /\ Live(i)
  /\ nCtl < MaxCtl
  /\ LET e == After(ok, alErr, site, i)
         s == snd[i].inst
     IN /\ src' = IF ok
                  THEN [t \in SrcIds |->
                          IF src[t].st = "alloc" /\ src[t].buf = src[s].buf
                          THEN srcNew[s] ELSE src[t]]
                  ELSE src
        /\ lastTr' = IF ok /\ tr # "none" THEN [lastTr EXCEPT ![i] = tr] ELSE lastTr
        /\ alErr' = NoErr
        /\ last' = Op(op, i, <<site, "gate">>, checkALError(e), FALSE, e)
  /\ nCtl' = nCtl + 1
  /\ UNCHANGED <<snd, cell, buf, delCalls>>
  /\ UNCHANGED <<facVars, negVars>>

\* a control that makes one device call on the object's source and gate-checks it
Gated(i, op, site, ok, srcNew, tr) ==
  /\ Live(i)
  /\ nCtl < MaxCtl
  /\ LET e == After(ok, alErr, site, i)
     IN /\ src' = IF ok THEN srcNew ELSE src
        /\ lastTr' = IF ok /\ tr # "none" THEN [lastTr EXCEPT ![i] = tr] ELSE lastTr
        /\ alErr' = NoErr
        /\ last' = Op(op, i, <<site, "gate">>, checkALError(e), FALSE, e)
  /\ nCtl' = nCtl + 1
  /\ UNCHANGED <<snd, cell, buf, delCalls>>
  /\ UNCHANGED <<facVars, negVars>>

play(i, ok) ==
  Gated(i, "play", "alSourcePlay", ok, [src EXCEPT ![snd[i].inst].state = "playing"], "play")

stop(i, ok) ==
  Gated(i, "stop", "alSourceStop", ok, [src EXCEPT ![snd[i].inst].state = "stopped"], "stop")

pause(i, ok) ==
  Gated(i, "pause", "alSourcePause", ok, [src EXCEPT ![snd[i].inst].state = "paused"], "pause")

\* "ALint state" is not initialised: when alGetSourcei fails it is never written
\* and the comparison reads an indeterminate value (junk).
isPlaying(i, ok, junk) ==
  /\ Live(i)
  /\ nCtl < MaxCtl
  /\ alErr' = After(ok, alErr, "alGetSourcei", i)
  /\ last' = Op("isPlaying", i, <<"alGetSourcei">>, FALSE,
                IF ok THEN src[snd[i].inst].state = "playing" ELSE junk, NoErr)
  /\ nCtl' = nCtl + 1
  /\ UNCHANGED <<snd, cell, src, buf, delCalls, lastTr>>
  /\ UNCHANGED <<facVars, negVars>>

\* ---- OpenAL_Sound: volume, range, position, pitch, looping (lines 135-165) ----
Volumes == {-5, 3, 17}

\* setVolume's clamp without its second line
ClampVolumeUpperOnly(volume) ==
  IF volume > 10 THEN 10 ELSE volume

ClampVolume(volume) ==
  LET v1 == IF volume > 10 THEN 10 ELSE volume
  IN IF v1 < 0 THEN 0 ELSE v1

setVolume(i, volume, ok) ==
  Gated(i, "setVolume", "alSourcef(AL_GAIN)", ok,
        [src EXCEPT ![snd[i].inst].gain = ClampVolume(volume)], "none")

\* two device calls, one gate after the second
setRange(i, a, b, ok1, ok2) ==
  /\ Live(i)
  /\ nCtl < MaxCtl
  /\ LET s == snd[i].inst
         e1 == After(ok1, alErr, "alSourcef(AL_REFERENCE_DISTANCE)", i)
         e2 == After(ok2, e1, "alSourcef(AL_MAX_DISTANCE)", i)
         src1 == IF ok1 THEN [src EXCEPT ![s].refd = a] ELSE src
         src2 == IF ok2 THEN [src1 EXCEPT ![s].maxd = b] ELSE src1
     IN /\ src' = src2
        /\ alErr' = NoErr
        /\ last' = Op("setRange", i,
                      <<"alSourcef(AL_REFERENCE_DISTANCE)", "alSourcef(AL_MAX_DISTANCE)", "gate">>,
                      checkALError(e2), FALSE, e2)
  /\ nCtl' = nCtl + 1
  /\ UNCHANGED <<snd, cell, buf, delCalls, lastTr>>
  /\ UNCHANGED <<facVars, negVars>>

setPos(i, x, y, z, ok) ==
  Gated(i, "setPos", "alSource3f(AL_POSITION)", ok,
        [src EXCEPT ![snd[i].inst].pos = <<x, y, z>>], "none")

setPitch(i, pitch, ok) ==
  Gated(i, "setPitch", "alSourcef(AL_PITCH)", ok,
        [src EXCEPT ![snd[i].inst].pitch = pitch], "none")

\* no gate: a failure stays pending in the device
setRepeat(i, rep, ok) ==
  /\ Live(i)
  /\ nCtl < MaxCtl
  /\ src' = IF ok THEN [src EXCEPT ![snd[i].inst].loop = rep] ELSE src
  /\ alErr' = After(ok, alErr, "alSourcei(AL_LOOPING)", i)
  /\ last' = Op("setRepeat", i, <<"alSourcei(AL_LOOPING)">>, FALSE, FALSE, NoErr)
  /\ nCtl' = nCtl + 1
  /\ UNCHANGED <<snd, cell, buf, delCalls, lastTr>>
  /\ UNCHANGED <<facVars, negVars>>

NextLife ==
  \/ \E i \in Insts, input \in Inputs, ext \in BOOLEAN, failAt \in 0..4 :
       Construct(i, input, ext, failAt)
  \/ \E i \in Insts, j \in Insts, failAt \in 0..2 : Clone(i, j, failAt)
  \/ \E i \in Insts, okStop \in BOOLEAN, okDelS \in BOOLEAN, okDelB \in BOOLEAN,
        zero \in BOOLEAN : Destroy(i, okStop, okDelS, okDelB, zero)

NextCtl ==
  \/ \E i \in Insts, ok \in BOOLEAN : play(i, ok)
  \/ \E i \in Insts, ok \in BOOLEAN : stop(i, ok)
  \/ \E i \in Insts, ok \in BOOLEAN : pause(i, ok)
  \/ \E i \in Insts, ok \in BOOLEAN, junk \in BOOLEAN : isPlaying(i, ok, junk)
  \/ \E i \in Insts, volume \in Volumes, ok \in BOOLEAN : setVolume(i, volume, ok)
  \/ \E i \in Insts, ok1 \in BOOLEAN, ok2 \in BOOLEAN : setRange(i, 2, 5, ok1, ok2)
  \/ \E i \in Insts, ok \in BOOLEAN : setPos(i, 1, 2, 3, ok)
  \/ \E i \in Insts, ok \in BOOLEAN : setPitch(i, 20, ok)
  \/ \E i \in Insts, rep \in BOOLEAN, ok \in BOOLEAN : setRepeat(i, rep, ok)

\* ---- OpenAL_Factory (lines 74-105) ----
\* Handles are numbered after the factory that obtained them; 0 is NULL.
UnbornFacs == {f \in Facs : fac[f].st = "unborn"}

\* devOk, ctxOk: whether alcOpenDevice, alcCreateContext return a handle;
\* mkOk: whether alcMakeContextCurrent takes effect (its result is not read)
FactoryCtor(f, doSetup, devOk, ctxOk, mkOk) ==
  /\ f \in UnbornFacs /\ f = Min(UnbornFacs)
  /\ IF ~doSetup
     THEN /\ fac' = [fac EXCEPT ![f] = [st |-> "live", didSetup |-> FALSE,
                                        Device |-> 0, Context |-> 0]]
          /\ last' = Op("OpenAL_Factory", f, <<>>, FALSE, FALSE, NoErr)
          /\ UNCHANGED <<dev, ctx, curCtx>>
     ELSE LET Device == IF devOk THEN f ELSE 0
              \* alcCreateContext(NULL, NULL) yields NULL
              Context == IF Device # 0 /\ ctxOk THEN f ELSE 0
              k2 == <<"alcOpenDevice", "alcCreateContext">>
          IN /\ dev' = IF Device # 0 THEN [dev EXCEPT ![f] = "open"] ELSE dev
             /\ ctx' = IF Context # 0 THEN [ctx EXCEPT ![f] = "live"] ELSE ctx
             /\ IF Device = 0 \/ Context = 0
                THEN \* fail(): the constructor throws, the destructor never runs
                     /\ fac' = [fac EXCEPT ![f] = [st |-> "failed", didSetup |-> TRUE,
                                                   Device |-> Device, Context |-> Context]]
                     /\ curCtx' = curCtx
                     /\ last' = Op("OpenAL_Factory", f, k2, TRUE, FALSE, NoErr)
                ELSE /\ fac' = [fac EXCEPT ![f] = [st |-> "live", didSetup |-> TRUE,
                                                   Device |-> Device, Context |-> Context]]
                     /\ curCtx' = IF mkOk THEN Context ELSE curCtx
                     /\ last' = Op("OpenAL_Factory", f, k2 \o <<"alcMakeContextCurrent">>,
                                   FALSE, FALSE, NoErr)
  /\ UNCHANGED <<sndVars, negVars>>

\* FactoryDtorCalls, were the device closed before its context is destroyed
FactoryDtorCallsCloseFirst(f) ==
  IF fac[f].didSetup
  THEN <<"alcMakeContextCurrent(NULL)">>
       \o (IF fac[f].Device # 0 THEN <<"alcCloseDevice">> ELSE <<>>)
       \o (IF fac[f].Context # 0 THEN <<"alcDestroyContext">> ELSE <<>>)
  ELSE <<>>

\* FactoryDtorCalls, were didSetup not looked at
FactoryDtorCallsAlways(f) ==
  <<"alcMakeContextCurrent(NULL)">>
  \o (IF fac[f].Context # 0 THEN <<"alcDestroyContext">> ELSE <<>>)
  \o (IF fac[f].Device # 0 THEN <<"alcCloseDevice">> ELSE <<>>)

\* the teardown calls ~OpenAL_Factory issues, in order
FactoryDtorCalls(f) ==
  IF fac[f].didSetup
  THEN <<"alcMakeContextCurrent(NULL)">>
       \o (IF fac[f].Context # 0 THEN <<"alcDestroyContext">> ELSE <<>>)
       \o (IF fac[f].Device # 0 THEN <<"alcCloseDevice">> ELSE <<>>)
  ELSE <<>>

\* the device's answer to a sequence of teardown calls on f's handles: a device is
\* not closed while a context on it is alive
RECURSIVE AlcApply(_, _, _)
AlcApply(calls, f, st) ==
  IF calls = <<>> THEN st
  ELSE LET c == Head(calls)
           st1 == IF c = "alcMakeContextCurrent(NULL)" THEN [st EXCEPT !.cur = 0]
                  ELSE IF c = "alcDestroyContext"
                  THEN [st EXCEPT !.ctx = "destroyed"]
                  ELSE IF c = "alcCloseDevice" /\ st.ctx # "live"
                  THEN [st EXCEPT !.dev = "closed"]
                  ELSE st
       IN AlcApply(Tail(calls), f, st1)

FactoryDtor(f) ==
  /\ fac[f].st = "live"
  /\ LET calls == FactoryDtorCalls(f)
         st == AlcApply(calls, f, [cur |-> curCtx, ctx |-> ctx[f], dev |-> dev[f]])
     IN /\ fac' = [fac EXCEPT ![f].st = "dead"]
        /\ curCtx' = st.cur
        /\ ctx' = [ctx EXCEPT ![f] = st.ctx]
        /\ dev' = [dev EXCEPT ![f] = st.dev]
        /\ last' = Op("~OpenAL_Factory", f, calls, FALSE, FALSE, NoErr)
  /\ UNCHANGED <<sndVars, negVars>>

NextFactory ==
  \/ \E f \in Facs, doSetup \in BOOLEAN, devOk \in BOOLEAN, ctxOk \in BOOLEAN,
        mkOk \in BOOLEAN : FactoryCtor(f, doSetup, devOk, ctxOk, mkOk)
  \/ \E f \in Facs : FactoryDtor(f)

\* construction and destruction on a device that fails no call of its own accord
NextLifeOk ==
  \/ \E i \in 1..CtlInst, input \in Inputs, ext \in BOOLEAN : Construct(i, input, ext, 0)
  \/ \E i \in Insts, j \in 1..CtlInst : Clone(i, j, 0)
  \/ \E i \in Insts, zero \in BOOLEAN : Destroy(i, TRUE, TRUE, TRUE, zero)

Next == NextLife \/ NextCtl

Spec == Init /\ [][Next]_vars

\* construction, cloning and destruction alone
SpecLife == Init /\ [][NextLife]_vars

\* the controls, on objects built and destroyed on a device that fails no
\* construction or teardown call of its own accord
SpecCtl == Init /\ [][NextLifeOk \/ NextCtl]_vars

\* the factories alone
SpecFactory == Init /\ [][NextFactory]_vars


\* ---- getALFormat on its own (lines 39-70) ----
BitDepths == {8, 16, 24, 32}

\* getInfo(&rate, &ch, &bits) writes the source's rate into the caller's rate;
\* fail() throws when no format was resolved
Negotiate(rate, ch, bits, ext, known) ==
  /\ LET fmt == getALFormat(ch, bits, ext, known)
     IN neg' = [op |-> "getALFormat", rate |-> rate, ch |-> ch, bits |-> bits,
                ext |-> ext, known |-> known, fmt |-> fmt, outRate |-> rate,
                threw |-> (fmt = "0")]
  /\ UNCHANGED <<sndVars, facVars, last>>

NextFormat ==
  \E rate \in 1..MaxRate, ch \in 1..MaxCh, bits \in BitDepths, ext \in BOOLEAN,
     known \in BOOLEAN : (ext => known) /\ Negotiate(rate, ch, bits, ext, known)

SpecFormat == Init /\ [][NextFormat]_vars

\* ---- properties ----
\* the live objects that reference buffer b
Owners(b) == {i \in Insts : Live(i) /\ snd[i].bufferID = b}

\* the live objects whose source is bound to buffer b
BoundTo(b) == {i \in Insts : Live(i) /\ src[snd[i].inst].buf = b}

\* an original object was constructed for buffer b
HadOriginal(b) == cell[b].st # "none"

CtlOps == {"play", "stop", "pause", "isPlaying", "setVolume", "setRange", "setPos",
           "setPitch", "setRepeat"}
SoundOps == CtlOps \cup {"construct", "clone", "destroy"}

\* C1: once alDeleteBuffers has been called for a buffer, no live object has its
\* source bound to that buffer.
C1_NoReleaseWhileBound ==
  \A b \in BufIds : delCalls[b] > 0 => BoundTo(b) = {}

\* C2: for an original and its clones, alDeleteBuffers is called exactly once, in
\* the destruction of the last owner: never while an owner lives, and exactly once
\* when none is left.
C2_ReleasedExactlyOnceAtLast ==
  \A b \in BufIds :
    HadOriginal(b) =>
      /\ Owners(b) # {} => delCalls[b] = 0
      /\ Owners(b) = {} => delCalls[b] = 1

\* C3: while an object references a buffer its counter is allocated and strictly
\* positive; the counter is freed only at zero, with the buffer released once.
C3_CounterPositiveWhileReferenced ==
  \A b \in BufIds :
    /\ Owners(b) # {} => cell[b].st = "live" /\ cell[b].val > 0
    /\ cell[b].st = "freed" => cell[b].val = 0 /\ delCalls[b] = 1

\* C4: a successful clone() adds one to the buffer's counter and allocates one new
\* source bound to the same buffer; it touches no buffer and no other source.
C4_CloneEffect ==
  [][(last'.op = "clone" /\ ~last'.threw) =>
       LET j == last'.who
           b == snd'[j].bufferID
           s == snd'[j].inst
       IN /\ cell'[b].val = cell[b].val + 1
          /\ buf' = buf
          /\ src[s].st = "free" /\ src'[s].st = "alloc" /\ src'[s].buf = b
          /\ \A t \in SrcIds \ {s} : src'[t] = src[t]]_vars

\* C5: a control or query on one object leaves every other source, every buffer
\* and every object as it was.
C5_ControlsIndependent ==
  [][last'.op \in CtlOps =>
       /\ \A t \in SrcIds \ {snd[last'.who].inst} : src'[t] = src[t]
       /\ buf' = buf /\ snd' = snd /\ cell' = cell]_vars

\* C5 witness: a clone's volume was set and it now differs from the gain of a live
\* object sharing its buffer.
C5_Witness ==
  /\ last.op = "setVolume" /\ ~last.threw
  /\ \E j \in Insts :
       /\ j # last.who /\ Live(j) /\ Live(last.who)
       /\ snd[j].bufferID = snd[last.who].bufferID
       /\ snd[last.who].refOff > 0
       /\ src[snd[j].inst].gain # src[snd[last.who].inst].gain

\* C6: the transport state follows the last transport call (Stopped at first), and
\* isPlaying() answers true only when that call was play().
C6_IsPlayingOnlyAfterPlay ==
  /\ \A i \in Insts :
       Live(i) =>
         src[snd[i].inst].state =
           (IF lastTr[i] = "play" THEN "playing"
            ELSE IF lastTr[i] = "pause" THEN "paused" ELSE "stopped")
  /\ (last.op = "isPlaying" /\ last.ret) => lastTr[last.who] = "play"

\* C7: in every operation on a sound, each device call that can fail is followed
\* at once by the gate.  Stated here for construction, cloning and every control
\* and query but setRepeat; the teardown calls and setRepeat's call, which the
\* design notes exempt from the gate, are left out.
Fallible == {"alGenBuffers", "alBufferData", "alGenSources", "alSourcei", "alSourceStop",
             "alSourcePlay", "alSourcePause", "alGetSourcei", "alSourcef(AL_GAIN)",
             "alSourcef(AL_REFERENCE_DISTANCE)", "alSourcef(AL_MAX_DISTANCE)",
             "alSource3f(AL_POSITION)", "alSourcef(AL_PITCH)"}

C7_GateAfterEveryCall ==
  last.op \in SoundOps \ {"destroy", "setRepeat"} =>
    \A k \in 1..Len(last.calls) :
      last.calls[k] \in Fallible =>
        k < Len(last.calls) /\ last.calls[k + 1] = "gate"

\* C8: destroying a sound escalates no error raised by its stop-on-destroy call or
\* left pending when teardown starts: if a destruction throws at all, the error it
\* reports is the one its own buffer release raised.
C8_DestroyNeverThrows ==
  (last.op = "destroy" /\ last.threw) =>
    last.err = [site |-> "alDeleteBuffers", who |-> last.who]

\* C9: a factory whose setup failed leaves no device open, no context alive and no
\* context of its own current.
C9_FailedSetupLeavesNothing ==
  \A f \in Facs :
    fac[f].st = "failed" => dev[f] # "open" /\ ctx[f] # "live" /\ curCtx # f

\* C10: the destructor of a factory that performed setup unbinds the current
\* context, then destroys its context, then closes its device, each once; a device
\* is never closed while its context is alive.
C10_TeardownOrder ==
  /\ (last.op = "~OpenAL_Factory" /\ fac[last.who].didSetup) =>
       /\ last.calls = <<"alcMakeContextCurrent(NULL)", "alcDestroyContext", "alcCloseDevice">>
       /\ dev[last.who] = "closed" /\ ctx[last.who] = "destroyed" /\ curCtx = 0
  /\ \A f \in Facs : dev[f] = "closed" => ctx[f] = "destroyed"

\* C10 witness: a factory that performed setup has been destroyed.
C10_Witness ==
  /\ last.op = "~OpenAL_Factory" /\ fac[last.who].didSetup
  /\ fac[last.who].st = "dead" /\ dev[last.who] = "closed"


\* C11: a factory built without the setup flag issues no device call, in its
\* constructor or in its destructor, and leaves every device, every context and
\* the current context as they were.
FacOps == {"OpenAL_Factory", "~OpenAL_Factory"}

C11_NoSetupNoCalls ==
  [][(last'.op \in FacOps /\ ~fac'[last'.who].didSetup) =>
       /\ last'.calls = <<>> /\ ~last'.threw
       /\ dev' = dev /\ ctx' = ctx /\ curCtx' = curCtx]_vars

\* C11 witness: a factory without setup has been destroyed while another factory
\* owns an open device and the current context.
C11_Witness ==
  /\ last.op = "~OpenAL_Factory" /\ ~fac[last.who].didSetup /\ fac[last.who].st = "dead"
  /\ \E g \in Facs :
       /\ fac[g].st = "live" /\ fac[g].didSetup
       /\ dev[g] = "open" /\ ctx[g] = "live" /\ curCtx = g

\* C12: constructing from a sample source whose channels and bits resolve to no
\* format fails with the unsupported-format error, and that failure makes no
\* device allocation, reads no sample byte and leaves the device as it was.
Allocating == {"alGenBuffers", "alBufferData", "alGenSources", "alSourcei", "getPtr",
               "BufferStream"}

C12_UnsupportedFailsFirst ==
  [][/\ \A input \in Inputs, ext \in BOOLEAN, failAt \in 0..4 :
          (last'.op = "construct" /\ Unborn # {}
             /\ getALFormat(input.ch, input.bits, ext, ext) = "0"
             /\ Construct(Min(Unborn), input, ext, failAt))
          => (last'.threw /\ last'.err.site = "Unsupported input format")
     /\ (last'.op = "construct" /\ last'.err.site = "Unsupported input format") =>
          /\ last'.threw /\ snd'[last'.who].st = "failed"
          /\ \A k \in 1..Len(last'.calls) : last'.calls[k] \notin Allocating
          /\ buf' = buf /\ src' = src /\ cell' = cell /\ alErr' = alErr
          /\ delCalls' = delCalls]_vars

\* C12 witness: a construction failed on the format while an earlier sound is live
\* and nothing but that sound's buffer and source is allocated.
C12_Witness ==
  /\ last.op = "construct" /\ last.threw /\ last.err.site = "Unsupported input format"
  /\ \E i \in Insts : Live(i)
  /\ Cardinality({b \in BufIds : buf[b].st = "alloc"}) = 1
  /\ Cardinality({s \in SrcIds : src[s].st = "alloc"}) = 1


\* C13: mono and stereo at 8 and 16 bits resolve to their four fixed tags, with
\* the source's rate, whatever the device advertises; without the extension every
\* other bit depth and every channel count no rule names makes getALFormat fail.
FixedTag(ch, bits) ==
  IF bits = 8 THEN (IF ch = 1 THEN "AL_FORMAT_MONO8" ELSE "AL_FORMAT_STEREO8")
  ELSE (IF ch = 1 THEN "AL_FORMAT_MONO16" ELSE "AL_FORMAT_STEREO16")

C13_FixedFormats ==
  neg.op = "getALFormat" =>
    /\ (neg.ch \in {1, 2} /\ neg.bits \in {8, 16}) =>
         ~neg.threw /\ neg.fmt = FixedTag(neg.ch, neg.bits) /\ neg.outRate = neg.rate
    /\ (~neg.ext /\ (neg.bits \notin {8, 16} \/ neg.ch \notin {1, 2, 4, 6}
                     \/ (neg.bits = 8 /\ neg.ch \in {4, 6})
                     \/ (neg.bits = 16 /\ neg.ch = 6))) =>
         neg.threw /\ neg.fmt = "0"

\* C13 witness: (2,16) resolved with the extension absent.
C13_Witness ==
  /\ neg.op = "getALFormat" /\ neg.ch = 2 /\ neg.bits = 16 /\ ~neg.ext
  /\ neg.fmt = "AL_FORMAT_STEREO16" /\ ~neg.threw

\* the multichannel rows that hold on every device
MultiRows ==
  /\ neg.ext =>
       /\ ((neg.ch = 4 /\ neg.bits = 8) => neg.fmt = "AL_FORMAT_QUAD8" /\ ~neg.threw)
       /\ ((neg.ch = 6 /\ neg.bits = 8) => neg.fmt = "AL_FORMAT_51CHN8" /\ ~neg.threw)
       /\ ((neg.ch = 4 /\ neg.bits = 16) => neg.fmt = "AL_FORMAT_QUAD16" /\ ~neg.threw)
       /\ ((neg.ch = 6 /\ neg.bits = 16) => neg.fmt = "AL_FORMAT_51CHN16" /\ ~neg.threw)
  /\ ~neg.ext =>
       (((neg.ch \in {4, 6} /\ neg.bits = 8) \/ (neg.ch = 6 /\ neg.bits = 16)) => neg.threw)

\* C14 as stated: the rows above, and without the extension (4,16) gives quad-16
\* unconditionally.
C14_MultichannelTable ==
  neg.op = "getALFormat" =>
    /\ MultiRows
    /\ (~neg.ext /\ neg.ch = 4 /\ neg.bits = 16) =>
         neg.fmt = "AL_FORMAT_QUAD16" /\ ~neg.threw

\* C14 amended: the rows above, and without the extension (4,16) gives what
\* alGetEnumValue("AL_FORMAT_QUAD16") returns: quad-16 on a device that has the
\* name, no tag (and the unsupported-format failure) on one that returns 0.
C14_MultichannelTableAmended ==
  neg.op = "getALFormat" =>
    /\ MultiRows
    /\ (~neg.ext /\ neg.ch = 4 /\ neg.bits = 16) =>
         IF neg.known THEN neg.fmt = "AL_FORMAT_QUAD16" /\ ~neg.threw
         ELSE neg.fmt = "0" /\ neg.threw

\* C14 witness: (4,16) failed on a device without the extension and the name.
C14_Witness ==
  /\ neg.op = "getALFormat" /\ neg.ch = 4 /\ neg.bits = 16
  /\ ~neg.ext /\ ~neg.known /\ neg.threw


\* C15: setVolume(v) applies min(max(v, 0.0), 1.0) to the source's gain (volumes
\* are in tenths): below 0 gives 0, above 1.0 gives 1.0, inside is unchanged, and
\* the call throws only on a device error, never because v is out of range.
C15_VolumeClamped ==
  [][\A i \in Insts, volume \in Volumes, ok \in BOOLEAN :
       setVolume(i, volume, ok) =>
         /\ last'.op = "setVolume" /\ last'.calls = <<"alSourcef(AL_GAIN)", "gate">>
         /\ ok => src'[snd[i].inst].gain =
                    (IF volume < 0 THEN 0 ELSE IF volume > 10 THEN 10 ELSE volume)
         /\ last'.threw <=> (~ok \/ alErr # NoErr)]_vars

\* C15 witness: a negative volume was applied as 0 without an error.
C15_Witness ==
  /\ last.op = "setVolume" /\ ~last.threw
  /\ src[snd[last.who].inst].gain = 0


\* C16: an original construction uploads exactly the source's bytes: from
\* getPtr()/size() without a BufferStream when the source has pointer access, else
\* from one BufferStream that drained the source; one alBufferData call, never two.
Count(calls, x) == Cardinality({k \in 1..Len(calls) : calls[k] = x})

C16_UploadExact ==
  [][last'.op = "construct" =>
       /\ Count(last'.calls, "alBufferData") <= 1
       /\ Count(last'.calls, "alGenSources") = 1 => Count(last'.calls, "alBufferData") = 1
       /\ ~last'.threw =>
            /\ Count(last'.calls, "alBufferData") = 1
            /\ \A input \in Inputs, ext \in BOOLEAN, failAt \in 0..4 :
                 (Unborn # {} /\ Construct(Min(Unborn), input, ext, failAt)) =>
                   /\ buf'[snd'[last'.who].bufferID].data = input.bytes
                   /\ Count(last'.calls, "BufferStream") = (IF input.hasPtr THEN 0 ELSE 1)
                   /\ Count(last'.calls, "getPtr") = (IF input.hasPtr THEN 1 ELSE 0)]_vars

\* C16 witness: a source without pointer access was uploaded through the adapter.
C16_Witness ==
  /\ last.op = "construct" /\ ~last.threw
  /\ Count(last.calls, "BufferStream") = 1
  /\ buf[snd[last.who].bufferID].data = <<3>>


\* C17: every live object's refCnt points at the counter made with its buffer
\* (the same cell for the original and all its clones), and that counter holds
\* the number of live objects that have the buffer.
C17_CounterShared ==
  \A i \in Insts : Live(i) =>
    /\ snd[i].refBase = snd[i].bufferID /\ snd[i].refOff = 0
    /\ cell[snd[i].bufferID].st = "live"
    /\ cell[snd[i].bufferID].val = Cardinality(Owners(snd[i].bufferID))


\* C18: when a gate of a sound operation throws a device error, the error was
\* raised by a device call of that same operation on that same object, never by
\* an earlier operation or by another object.
C18_ErrorNamesItsCall ==
  (last.op \in SoundOps /\ last.threw /\ last.err.site # "Unsupported input format") =>
    /\ last.err.who = last.who
    /\ \E k \in 1..Len(last.calls) : last.calls[k] = last.err.site


\* the sources and buffers the device holds
AllocSrcs == {s \in SrcIds : src[s].st = "alloc"}
AllocBufs == {b \in BufIds : buf[b].st = "alloc"}
LiveInsts == {i \in Insts : Live(i)}

\* C19: live objects have pairwise distinct sources, the device holds exactly as
\* many sources as there are live objects, and each live object's source is
\* allocated and bound to that object's buffer.
C19_SourcesExclusive ==
  /\ \A i, j \in LiveInsts : i # j => snd[i].inst # snd[j].inst
  /\ Cardinality(AllocSrcs) = Cardinality(LiveInsts)
  /\ \A i \in LiveInsts :
       src[snd[i].inst].st = "alloc" /\ src[snd[i].inst].buf = snd[i].bufferID

\* C20: a construction or clone() that throws at a gate leaves the device with the
\* buffers and sources it held before, and every counter equal to the number of
\* live objects that have its buffer.
C20_FailedConstructionLeavesNothing ==
  [][(last'.op \in {"construct", "clone"} /\ last'.threw
        /\ last'.err.site # "Unsupported input format") =>
       /\ AllocBufs' = AllocBufs
       /\ AllocSrcs' = AllocSrcs
       /\ \A b \in BufIds : cell'[b].st = "live" =>
            cell'[b].val = Cardinality({i \in Insts : snd'[i].st = "live" /\ snd'[i].bufferID = b})]_vars

====
